---- MODULE Spec2Model ----
(***************************************************************************)
(* Batch Reorganization Orchestrator of the Drive organizer.               *)
(*                                                                         *)
(* The model follows the TypeScript sources:                               *)
(*   - the App component (review state machine and sync executor),         *)
(*   - driveService (ensureFolderPath, applyFileUpdate, findFolder,        *)
(*     createFolder and the module-level folderCache),                     *)
(*   - the ReviewTable/DriveSelector call sites.                           *)
(*                                                                         *)
(* JavaScript runs one handler at a time; a handler only yields at an      *)
(* await on a network call.  Every action below is one piece of code that  *)
(* runs between two such points.  While a piece of synchronous code is     *)
(* still running (a pc that is not an await point), no other action is     *)
(* enabled.                                                                *)
(*                                                                         *)
(* Strings are sequences of one-character strings, so that split, trim     *)
(* and join are computed as the code computes them.                        *)
(***************************************************************************)
EXTENDS Integers, Sequences, FiniteSets, TLC

(***************************************************************************)
(* Bounds of the model.                                                    *)
(***************************************************************************)
\* number of remote files the Drive listing offers (ids 1..MaxFiles)
MaxFiles == 2
\* number of store calls that may fail in one session
MaxFailures == 1

(***************************************************************************)
(* Identifiers.                                                            *)
(***************************************************************************)
\* the 'root' alias of the store
Root == 0

None == <<>>
Some(x) == <<x>>

(***************************************************************************)
(* Strings.                                                                *)
(***************************************************************************)
Str0 == <<>>
StrSlash == <<"/">>
StrDot == <<".">>
StrBlank == <<" ">>
StrA == <<"a">>
StrB == <<"b">>
StrAB == <<"a", "/", "b">>
StrBA == <<"b", "/", " ", "a">>
StrABmessy == <<" ", "a", "/", "/", "b">>

\* the logical paths the classifier, the user and the callers supply
Paths == {Str0, StrSlash, StrDot, StrBlank, StrA, StrB, StrAB, StrBA, StrABmessy}

\* String.prototype.split('/')
RECURSIVE Split(_)
Split(s) ==
  IF \A i \in 1..Len(s) : s[i] /= "/"
    THEN <<s>>
    ELSE LET i == CHOOSE k \in 1..Len(s) :
                    s[k] = "/" /\ \A j \in 1..(k - 1) : s[j] /= "/"
         IN <<SubSeq(s, 1, i - 1)>> \o Split(SubSeq(s, i + 1, Len(s)))

\* String.prototype.trim()
RECURSIVE TrimLeft(_)
TrimLeft(s) == IF s /= <<>> /\ Head(s) = " " THEN TrimLeft(Tail(s)) ELSE s
RECURSIVE TrimRight(_)
TrimRight(s) ==
  IF s /= <<>> /\ s[Len(s)] = " " THEN TrimRight(SubSeq(s, 1, Len(s) - 1)) ELSE s
Trim(s) == TrimRight(TrimLeft(s))

MapTrim(ss) == [i \in 1..Len(ss) |-> Trim(ss[i])]
NonEmptyStr(p) == p /= <<>>

\* path.split('/').map(p => p.trim()).filter(p => p !== '')
Normalize(path) == SelectSeq(MapTrim(Split(path)), NonEmptyStr)

\* currentPathStr ? `${currentPathStr}/${part}` : part
JoinPath(currentPathStr, part) ==
  IF currentPathStr /= <<>> THEN currentPathStr \o <<"/">> \o part ELSE part

\* the cache key of the first k segments
RECURSIVE PrefixKey(_, _)
PrefixKey(ps, k) == IF k = 0 THEN <<>> ELSE JoinPath(PrefixKey(ps, k - 1), ps[k])

(***************************************************************************)
(* State.                                                                  *)
(***************************************************************************)
VARIABLES
  \* App component state (useState)
  apiKey, sourceMode, isSyncing, syncProgress, appState, files, error,
  \* classification requests whose response has not arrived: how many were
  \* sent for the records now in files, how many for records since replaced
  requests,
  \* handleSyncToDrive: position and locals of the running invocation
  syncPc, approvedFiles, syncI, targetFolderId, confirmTimer,
  \* ensureFolderPath: position and locals of the running invocation
  ensPc, ensCaller, parts, partIdx, currentParentId, currentPathStr,
  \* driveService module state
  folderCache,
  \* the remote store: its folders, the next identifier it hands out
  folders, nextId,
  \* number of store calls that have failed so far
  failures,
  \* observation: the running/last and the previous resolve call, the
  \* create-folder calls issued and answered per prefix, and for the running
  \* sync what the store answered for each record it processed
  call, prevCall, createIssued, createOk, runLog,
  \* observation: the approve-all, the sync without a batch or the
  \* classification call that ended in the last step of the current batch,
  \* and how it ended for its caller (NoOp: another handler, which returned)
  lastOp,
  \* observation: per file id the name and path of the last edit that
  \* changed the record of the current batch
  edits,
  \* ReviewTable component state (useState): the filter of the table
  filter,
  \* a second invocation of handleSyncToDrive that waits at an await while
  \* the one held in the sync and resolver variables runs: its locals
  suspended,
  \* DriveSelector component state (useState) and the listing requests it
  \* has sent that are not answered
  selector

appVars == <<apiKey, sourceMode, isSyncing, syncProgress, appState, files, error>>
syncVars == <<syncPc, approvedFiles, syncI, targetFolderId, confirmTimer>>
ensVars == <<ensPc, ensCaller, parts, partIdx, currentParentId, currentPathStr>>
storeVars == <<folders, nextId>>
obsVars == <<call, prevCall, createIssued, createOk, runLog, lastOp, edits>>
vars == <<appVars, requests, syncVars, ensVars, folderCache, storeVars, failures,
          obsVars, filter, suspended, selector>>

(***************************************************************************)
(* The remote store (Drive API behind window.gapi.client.drive.files).     *)
(***************************************************************************)
\* folders present before the session: "a" directly under the root
InitFolders == {[id |-> 1, name |-> StrA, parent |-> Root]}

\* files.list with the findFolder query: the folders of that name under
\* that parent (pageSize 1 returns any one of them)
FindMatches(name, parentId) ==
  {f.id : f \in {g \in folders : g.name = name /\ g.parent = parentId}}

\* a store call may still be answered with a failure
MayFail == failures < MaxFailures

(***************************************************************************)
(* driveService.ensureFolderPath                                           *)
(***************************************************************************)
NoCall == [path |-> <<>>, status |-> "none", result |-> Root, finds |-> 0,
           creates |-> 0, failedAt |-> 0, fresh |-> FALSE]

Cached(key) == key \in DOMAIN folderCache

\* the folders of the store that lie at the first k segments, from the root
RECURSIVE Reach(_, _)
Reach(ps, k) ==
  IF k = 0 THEN {Root}
  ELSE {f.id : f \in {g \in folders :
                         g.name = ps[k] /\ g.parent \in Reach(ps, k - 1)}}

\* there is a segment, and no prefix is in the cache or in the store
Absent(ps) ==
  /\ Len(ps) > 0
  /\ \A k \in 1..Len(ps) : ~Cached(PrefixKey(ps, k)) /\ Reach(ps, k) = {}

\* folderCache[currentPathStr] = folderId
\* (variants: the write is missing; the parent is stored for the folder)
CacheNeverWritten(cache, key, folderId) == cache
CachePutParent(cache, key, folderId) ==
  [k \in DOMAIN cache \cup {key} |-> IF k = key THEN currentParentId ELSE cache[k]]
CachePut(cache, key, folderId) ==
  [k \in DOMAIN cache \cup {key} |-> IF k = key THEN folderId ELSE cache[k]]

\* entry of ensureFolderPath(path): normalize, return 'root' for no segment
EnsureBegin(path, who) ==
  /\ ensCaller' = who
  /\ parts' = Normalize(path)
  /\ currentParentId' = Root
  /\ currentPathStr' = <<>>
  /\ partIdx' = 1
  /\ IF Len(parts') = 0
       THEN /\ ensPc' = "returned"
            /\ call' = [NoCall EXCEPT !.path = path, !.status = "returned",
                                      !.result = Root]
       ELSE /\ ensPc' = "walk"
            /\ call' = [NoCall EXCEPT !.path = path, !.status = "running",
                                      !.fresh = Absent(Normalize(path))]

\* one turn of the for-of loop up to the cache check; issues findFolder for
\* a prefix that is not cached; returns currentParentId after the last part
EnsureWalk ==
  /\ ensPc = "walk"
  /\ IF partIdx > Len(parts)
       THEN /\ ensPc' = "returned"
            /\ call' = [call EXCEPT !.status = "returned",
                                    !.result = currentParentId]
            /\ UNCHANGED <<partIdx, currentParentId, currentPathStr>>
       ELSE LET key == JoinPath(currentPathStr, parts[partIdx]) IN
            /\ currentPathStr' = key
            /\ IF Cached(key)
                 THEN /\ currentParentId' = folderCache[key]
                      /\ partIdx' = partIdx + 1
                      /\ ensPc' = "walk"
                      /\ call' = call
                 ELSE /\ ensPc' = "find"
                      /\ call' = [call EXCEPT !.finds = @ + 1]
                      /\ UNCHANGED <<partIdx, currentParentId>>
  /\ UNCHANGED <<appVars, requests, syncVars, ensCaller, parts, folderCache,
                 storeVars, failures, prevCall, createIssued, createOk, runLog,
                 lastOp,
                 edits, filter, suspended, selector>>

\* the rest of the loop body once folderId is known
EnsureCacheAndContinue(folderId) ==
  /\ folderCache' = CachePut(folderCache, currentPathStr, folderId)
  /\ currentParentId' = folderId
  /\ partIdx' = partIdx + 1
  /\ ensPc' = "walk"

\* one more call counted under key
Bump(f, key) ==
  [k \in DOMAIN f \cup {key} |->
     IF k /= key THEN f[k] ELSE IF key \in DOMAIN f THEN f[key] + 1 ELSE 1]

\* findFolder answers with the identifier of an existing folder
FindFolderFound ==
  /\ ensPc = "find"
  /\ \E id \in FindMatches(parts[partIdx], currentParentId) :
       EnsureCacheAndContinue(id)
  /\ UNCHANGED <<appVars, requests, syncVars, ensCaller, parts, currentPathStr,
                 storeVars, failures, obsVars, filter, suspended, selector>>

\* findFolder answers null: createFolder is issued under the same parent
FindFolderNull ==
  /\ ensPc = "find"
  /\ FindMatches(parts[partIdx], currentParentId) = {}
  /\ ensPc' = "create"
  /\ call' = [call EXCEPT !.creates = @ + 1]
  /\ createIssued' = Bump(createIssued, currentPathStr)
  /\ UNCHANGED <<appVars, requests, syncVars, ensCaller, parts, partIdx,
                 currentParentId, currentPathStr, folderCache, storeVars,
                 failures, prevCall, createOk, runLog, lastOp,
                 edits, filter, suspended, selector>>

\* (variant: the new folder is created under the root)
CreateFolderUnderRoot ==
  /\ ensPc = "create"
  /\ folders' = folders \cup {[id |-> nextId, name |-> parts[partIdx],
                                parent |-> Root]}
  /\ nextId' = nextId + 1
  /\ createOk' = Bump(createOk, currentPathStr)
  /\ EnsureCacheAndContinue(nextId)
  /\ UNCHANGED <<appVars, requests, syncVars, ensCaller, parts, currentPathStr,
                 failures, call, prevCall, createIssued, runLog, lastOp,
                 edits, filter, suspended, selector>>

\* createFolder answers with the identifier of the new folder
CreateFolderOk ==
  /\ ensPc = "create"
  /\ folders' = folders \cup {[id |-> nextId, name |-> parts[partIdx],
                                parent |-> currentParentId]}
  /\ nextId' = nextId + 1
  /\ createOk' = Bump(createOk, currentPathStr)
  /\ EnsureCacheAndContinue(nextId)
  /\ UNCHANGED <<appVars, requests, syncVars, ensCaller, parts, currentPathStr,
                 failures, call, prevCall, createIssued, runLog, lastOp,
                 edits, filter, suspended, selector>>

\* (variant: the prefix is cached before its call is answered)
EnsureCallFailsAfterCaching ==
  /\ ensPc \in {"find", "create"}
  /\ MayFail
  /\ failures' = failures + 1
  /\ ensPc' = "threw"
  /\ folderCache' = [k \in DOMAIN folderCache \cup {currentPathStr} |->
                       IF k \in DOMAIN folderCache THEN folderCache[k] ELSE Root]
  /\ call' = [call EXCEPT !.status = "threw", !.failedAt = partIdx]
  /\ runLog' = IF ensCaller = "sync"
                 THEN [runLog EXCEPT ![Len(runLog)].resolve = "failed"]
                 ELSE runLog
  /\ UNCHANGED <<appVars, requests, syncVars, ensCaller, parts, partIdx,
                 currentParentId, currentPathStr, storeVars, prevCall,
                 createIssued, createOk, lastOp,
                 edits, filter, suspended, selector>>

\* findFolder or createFolder rejects: ensureFolderPath throws
EnsureCallFails ==
  /\ ensPc \in {"find", "create"}
  /\ MayFail
  /\ failures' = failures + 1
  /\ ensPc' = "threw"
  /\ call' = [call EXCEPT !.status = "threw", !.failedAt = partIdx]
  /\ runLog' = IF ensCaller = "sync"
                 THEN [runLog EXCEPT ![Len(runLog)].resolve = "failed"]
                 ELSE runLog
  /\ UNCHANGED <<appVars, requests, syncVars, ensCaller, parts, partIdx,
                 currentParentId, currentPathStr, folderCache, storeVars,
                 prevCall, createIssued, createOk, lastOp,
                 edits, filter, suspended, selector>>

(***************************************************************************)
(* ensureFolderPath called on its own (it is an export of driveService).   *)
(***************************************************************************)
DirectResolve(path) ==
  /\ ensPc = "idle"
  /\ syncPc = "idle"
  /\ EnsureBegin(path, "direct")
  /\ prevCall' = call
  /\ UNCHANGED <<appVars, requests, syncVars, folderCache, storeVars, failures,
                 createIssued, createOk, runLog, lastOp,
                 edits, filter, suspended, selector>>

\* the promise settles: the locals of the invocation are gone
EnsureSettles ==
  /\ ensPc' = "idle"
  /\ ensCaller' = "none"
  /\ parts' = <<>>
  /\ partIdx' = 1
  /\ currentParentId' = Root
  /\ currentPathStr' = <<>>

DirectSettled ==
  /\ ensPc \in {"returned", "threw"}
  /\ ensCaller = "direct"
  /\ EnsureSettles
  /\ UNCHANGED <<appVars, requests, syncVars, folderCache, storeVars, failures,
                 obsVars, filter, suspended, selector>>

(***************************************************************************)
(* Records of the App component.                                           *)
(***************************************************************************)
FileIds == 1..MaxFiles

\* parents as the Drive listing reports them: file 1 lies in folder "a",
\* file 2 comes without the field, any further file lies in two folders
\* the session never resolves
ParentsOf(id) ==
  IF id = 1 THEN Some(<<1>>) ELSE IF id = 2 THEN None ELSE Some(<<98, 99>>)

Descriptor(id) == [id |-> id, name |-> "original", parents |-> ParentsOf(id)]

\* the selections DriveSelector hands over: the listing filtered by the
\* selected ids, which is empty when no selected file is in the listing
RECURSIVE SeqOfSet(_)
SeqOfSet(S) ==
  IF S = {} THEN <<>>
  ELSE LET m == CHOOSE x \in S : \A y \in S : x <= y
       IN <<m>> \o SeqOfSet(S \ {m})
Selections == {SeqOfSet(S) : S \in SUBSET FileIds}

Analysis(fileId, name, path) ==
  [fileId |-> fileId, category |-> "01_Work", suggestedName |-> name,
   suggestedPath |-> path]

\* paths the classifier suggests, paths the user types into the edit form
SuggestedPaths == {StrBlank, StrAB}
EditedPaths == {StrDot, StrA}

WithStatus(f, st) == [f EXCEPT !.status = st]

\* (variant: filter in place of map, the other records are dropped)
SetStatusByIdDropsOthers(fs, id, st) ==
  LET hit == SelectSeq(fs, LAMBDA f : f.id = id)
  IN [k \in 1..Len(hit) |-> WithStatus(hit[k], st)]

\* prev.map(f => f.id === id ? { ...f, status } : f)
SetStatusById(fs, id, st) ==
  [k \in 1..Len(fs) |-> IF fs[k].id = id THEN WithStatus(fs[k], st) ELSE fs[k]]

\* a review handler returns nothing and throws nothing: all a caller sees
\* of it is that it ran to its end
NoEdits == [id \in FileIds |-> None]
NoOp == [op |-> "none", arg |-> "none", outcome |-> "returned"]
Returned(op) == [op |-> op, arg |-> "none", outcome |-> "returned"]

(***************************************************************************)
(* What the page lets the user reach.                                      *)
(***************************************************************************)
\* synchronous code of a handler is executing
Running == syncPc = "loop" \/ ensPc \in {"walk", "returned", "threw"}

\* the main page is rendered (a key is set), the sync overlay does not
\* cover it, and the completion dialog of the last run has been answered
UserCanAct == apiKey /\ ~isSyncing /\ ~confirmTimer /\ ~Running

InReview == UserCanAct /\ appState = "REVIEW"
InIdleView == UserCanAct /\ appState = "IDLE"

\* the awaits of handleFilesSelected that are still pending
NoRequests == [current |-> 0, stale |-> 0]
Outstanding(r) == r.current + r.stale
\* setFiles([]) or a new ingestion: a pending await now belongs to records
\* that are gone
Abandon(r) == [current |-> 0, stale |-> r.stale + r.current]

(***************************************************************************)
(* Session and source mode.                                                *)
(***************************************************************************)
handleLogin ==
  /\ ~apiKey
  /\ ~Running
  /\ apiKey' = TRUE
  /\ UNCHANGED <<sourceMode, isSyncing, syncProgress, appState, files, error,
                 requests, syncVars, ensVars, folderCache, storeVars, failures,
                 obsVars, filter, suspended, selector>>

handleLogout ==
  /\ UserCanAct
  /\ apiKey' = FALSE
  /\ files' = <<>>
  /\ appState' = "IDLE"
  /\ lastOp' = NoOp
  /\ edits' = NoEdits
  /\ requests' = Abandon(requests)
  /\ filter' = "all"
  /\ UNCHANGED <<sourceMode, isSyncing, syncProgress, error, syncVars,
                 ensVars, folderCache, storeVars, failures, call, prevCall,
                 createIssued, createOk, runLog, suspended, selector>>

setSourceMode(mode) ==
  /\ InIdleView
  /\ sourceMode' = mode
  /\ UNCHANGED <<apiKey, isSyncing, syncProgress, appState, files, error,
                 requests, syncVars, ensVars, folderCache, storeVars, failures,
                 obsVars, filter, suspended, selector>>

handleReset ==
  /\ InReview
  /\ sourceMode = "upload"
  /\ \A k \in 1..Len(files) : files[k].status /= "pending"
  /\ files' = <<>>
  /\ appState' = "IDLE"
  /\ lastOp' = NoOp
  /\ edits' = NoEdits
  /\ requests' = Abandon(requests)
  /\ filter' = "all"
  /\ UNCHANGED <<apiKey, sourceMode, isSyncing, syncProgress, error,
                 syncVars, ensVars, folderCache, storeVars, failures, call,
                 prevCall, createIssued, createOk, runLog, suspended, selector>>

(***************************************************************************)
(* Ingestion and classification (handleFilesSelected).                     *)
(***************************************************************************)
\* number of classification requests that can be outstanding in the model
MaxRequests == 2

\* (variant: the new records are appended to the ones there are)
IngestAppends(selected) ==
  files \o [k \in 1..Len(selected) |->
              [id |-> selected[k].id, name |-> selected[k].name,
               parents |-> selected[k].parents, status |-> "pending",
               analysis |-> None]]

\* selectedFiles.map(f => ({ ...f, status: 'pending' }))
Ingest(selected) ==
  [k \in 1..Len(selected) |->
     [id |-> selected[k].id, name |-> selected[k].name,
      parents |-> selected[k].parents, status |-> "pending", analysis |-> None]]

\* handleFilesSelected up to the await on analyzeFilesBatch
handleFilesSelected(selection) ==
  /\ InIdleView
  /\ Outstanding(requests) < MaxRequests
  /\ LET selected == [k \in 1..Len(selection) |->
                        [Descriptor(selection[k]) EXCEPT
                           !.parents = IF sourceMode = "upload" THEN None ELSE @]]
     IN /\ files' = Ingest(selected)
        /\ IF ~apiKey
             THEN /\ error' = "Gemini failed to analyze the files."
                  /\ appState' = "IDLE"
                  /\ requests' = Abandon(requests)
             ELSE /\ error' = "null"
                  /\ appState' = "ANALYZING"
                  /\ requests' = [Abandon(requests) EXCEPT !.current = 1]
  /\ lastOp' = NoOp
  /\ edits' = NoEdits
  /\ filter' = "all"
  /\ UNCHANGED <<apiKey, sourceMode, isSyncing, syncProgress, syncVars, ensVars,
                 folderCache, storeVars, failures, call, prevCall, createIssued,
                 createOk, runLog, suspended, selector>>

\* analysisResults.find(r => r.fileId === f.id)
RECURSIVE FindResult(_, _)
FindResult(results, id) ==
  IF results = <<>> THEN None
  ELSE IF Head(results).fileId = id THEN Some(Head(results))
  ELSE FindResult(Tail(results), id)

\* prev.map(f => { const result = ...; return result ? {...f, analysis: result} : f })
\* (variant: results are attached by position)
MergeByPosition(fs, results) ==
  [k \in 1..Len(fs) |->
     IF k <= Len(results)
       THEN [fs[k] EXCEPT !.analysis = Some(results[k])]
       ELSE fs[k]]
MergeResults(fs, results) ==
  [k \in 1..Len(fs) |->
     IF FindResult(results, fs[k].id) /= None
       THEN [fs[k] EXCEPT !.analysis = FindResult(results, fs[k].id)]
       ELSE fs[k]]

\* what the classifier may send back: for each file either nothing or one
\* suggestion, followed by a result for an id that is no file
RECURSIVE ResultsOf(_, _)
ResultsOf(choice, n) ==
  IF n = 0 THEN <<>>
  ELSE ResultsOf(choice, n - 1) \o
       (IF choice[n] = None THEN <<>>
        ELSE <<Analysis(n, "suggested", choice[n][1])>>)
Responses ==
  {ResultsOf(c, MaxFiles) \o <<Analysis(0, "suggested", StrAB)>> :
     c \in [FileIds -> {None} \cup {Some(p) : p \in SuggestedPaths}]}

\* what the model endpoint may answer: the call rejects, the response has
\* no text, the text is no JSON, the JSON is no array, the JSON is an array
\* of results
Bodies ==
  {[kind |-> k, results |-> <<>>] :
     k \in {"failed", "empty", "malformed", "nonlist"}}
    \cup {[kind |-> "list", results |-> r] : r \in Responses}

\* analyzeFilesBatch from the await on generateContent on
AnalyzeOutcome(body) ==
  IF body.kind = "failed" THEN [threw |-> TRUE, results |-> <<>>]
  ELSE IF body.kind = "empty" THEN [threw |-> FALSE, results |-> <<>>]
  ELSE IF body.kind \in {"malformed", "nonlist"}
    THEN [threw |-> TRUE, results |-> <<>>]
  ELSE [threw |-> FALSE, results |-> body.results]

\* the await returns: merge by fileId, enter the review
ClassifyReturns(which, body) ==
  /\ ~Running
  /\ requests[which] > 0
  /\ ~AnalyzeOutcome(body).threw
  /\ requests' = [requests EXCEPT ![which] = @ - 1]
  /\ files' = MergeResults(files, AnalyzeOutcome(body).results)
  /\ appState' = "REVIEW"
  /\ lastOp' = [op |-> "classify", arg |-> body.kind, outcome |-> "returned"]
  /\ UNCHANGED <<apiKey, sourceMode, isSyncing, syncProgress, error, syncVars,
                 ensVars, folderCache, storeVars, failures, call, prevCall,
                 createIssued, createOk, runLog, edits, filter, suspended, selector>>

\* the await throws: batch-level error, back to idle
ClassifyThrows(which, body) ==
  /\ ~Running
  /\ requests[which] > 0
  /\ AnalyzeOutcome(body).threw
  /\ requests' = [requests EXCEPT ![which] = @ - 1]
  /\ error' = "Gemini failed to analyze the files."
  /\ appState' = "IDLE"
  /\ lastOp' = [op |-> "classify", arg |-> body.kind, outcome |-> "threw"]
  /\ filter' = "all"
  /\ UNCHANGED <<apiKey, sourceMode, isSyncing, syncProgress, files, syncVars,
                 ensVars, folderCache, storeVars, failures, call, prevCall,
                 createIssued, createOk, runLog, edits, suspended, selector>>

(***************************************************************************)
(* Review state machine (handlers of the App component).                   *)
(***************************************************************************)
Approve(fs, id) == SetStatusById(fs, id, "approved")

Reject(fs, id) == SetStatusById(fs, id, "rejected")

\* (variant: the status test is left out)
ApproveAllEverything(fs) ==
  [k \in 1..Len(fs) |-> WithStatus(fs[k], "approved")]

\* prev.map(f => f.status === 'pending' ? { ...f, status: 'approved' } : f)
ApproveAll(fs) ==
  [k \in 1..Len(fs) |->
     IF fs[k].status = "pending" THEN WithStatus(fs[k], "approved") ELSE fs[k]]

\* (variant: the edit also files the record under another category)
UpdateAnalysisRecategorizes(fs, id, name, path) ==
  [k \in 1..Len(fs) |->
     IF fs[k].id = id /\ fs[k].analysis /= None
       THEN [fs[k] EXCEPT !.analysis =
               Some([fs[k].analysis[1] EXCEPT !.suggestedName = name,
                                              !.suggestedPath = path,
                                              !.category = "00_Edited"])]
       ELSE fs[k]]

\* { ...f, analysis: { ...f.analysis, ...updates } } for f.id === id && f.analysis
UpdateAnalysis(fs, id, name, path) ==
  [k \in 1..Len(fs) |->
     IF fs[k].id = id /\ fs[k].analysis /= None
       THEN [fs[k] EXCEPT !.analysis =
               Some([fs[k].analysis[1] EXCEPT !.suggestedName = name,
                                              !.suggestedPath = path])]
       ELSE fs[k]]

reviewFrame ==
  UNCHANGED <<apiKey, sourceMode, isSyncing, syncProgress, appState, error,
              requests, syncVars, ensVars, folderCache, storeVars, failures,
              call, prevCall, createIssued, createOk, runLog,
              filter, suspended, selector>>

handleApprove(id) ==
  /\ InReview
  /\ files' = Approve(files, id)
  /\ lastOp' = NoOp
  /\ edits' = edits
  /\ reviewFrame

handleReject(id) ==
  /\ InReview
  /\ files' = Reject(files, id)
  /\ lastOp' = NoOp
  /\ edits' = edits
  /\ reviewFrame

handleApproveAll ==
  /\ InReview
  /\ files' = ApproveAll(files)
  /\ lastOp' = Returned("approveAll")
  /\ edits' = edits
  /\ reviewFrame

handleUpdateAnalysis(id, name, path) ==
  /\ InReview
  /\ files' = UpdateAnalysis(files, id, name, path)
  /\ lastOp' = NoOp
  /\ edits' = IF \E k \in 1..Len(files) :
                     files[k].id = id /\ files[k].analysis /= None
                THEN [edits EXCEPT ![id] = Some([name |-> name, path |-> path])]
                ELSE edits
  /\ reviewFrame

(***************************************************************************)
(* driveService.applyFileUpdate: the parameters of the files.update call.  *)
(***************************************************************************)
\* currentParents && currentParents.includes(targetFolderId)
IsAlreadyHere(currentParents, target) ==
  currentParents /= None /\
    \E k \in 1..Len(currentParents[1]) : currentParents[1][k] = target

\* (variant: the current parents are not removed)
UpdateParamsKeepsParents(fileId, newName, currentParents, target) ==
  LET move == target /= None /\ target[1] /= Root
                /\ ~IsAlreadyHere(currentParents, target[1])
  IN [fileId |-> fileId, name |-> newName,
      addParents |-> IF move THEN target ELSE None, removeParents |-> None]

\* (variant: the current parents are removed even when the file is
\* already in the target folder)
UpdateParamsRemovesWhenHere(fileId, newName, currentParents, target) ==
  LET given == target /= None /\ target[1] /= Root
      move == given /\ ~IsAlreadyHere(currentParents, target[1])
  IN [fileId |-> fileId, name |-> newName,
      addParents |-> IF move THEN target ELSE None,
      removeParents |-> IF given /\ currentParents /= None
                             /\ Len(currentParents[1]) > 0
                          THEN currentParents ELSE None]

UpdateParams(fileId, newName, currentParents, target) ==
  LET move == target /= None /\ target[1] /= Root
                /\ ~IsAlreadyHere(currentParents, target[1])
  IN [fileId |-> fileId,
      name |-> newName,
      addParents |-> IF move THEN target ELSE None,
      removeParents |-> IF move /\ currentParents /= None
                             /\ Len(currentParents[1]) > 0
                          THEN currentParents ELSE None]

\* the arguments of one applyFileUpdate call and the request it sends
UpdateCall(fileId, newName, currentParents, target) ==
  [fileId |-> fileId, newName |-> newName, currentParents |-> currentParents,
   targetFolderId |-> target,
   params |-> UpdateParams(fileId, newName, currentParents, target)]

(***************************************************************************)
(* Sync executor (handleSyncToDrive).                                      *)
(***************************************************************************)
\* (variant: records in error are taken up again)
ApprovedOrErrorOf(fs) ==
  SelectSeq(fs, LAMBDA f : f.status \in {"approved", "error"})

\* (variant: the approved records are taken from the last to the first)
ApprovedOfReversed(fs) ==
  LET a == SelectSeq(fs, LAMBDA f : f.status = "approved")
  IN [k \in 1..Len(a) |-> a[Len(a) + 1 - k]]

\* files.filter(f => f.status === 'approved')
ApprovedOf(fs) == SelectSeq(fs, LAMBDA f : f.status = "approved")

\* (variant: only the empty path is taken for the root)
NeedsResolveNonEmpty(path) == path /= <<>>

\* suggestedPath && suggestedPath !== '/' && suggestedPath !== '.'
NeedsResolve(path) == path /= <<>> /\ path /= StrSlash /\ path /= StrDot

\* setSyncProgress(prev => ({ ...prev, current: i + 1 })), i counted from 0
ProgressAfter(progress, k) == [progress EXCEPT !.current = k]

\* (variant: the test for an empty batch is left out)
handleSyncToDriveWithoutEmptyTest ==
  /\ InReview
  /\ IF sourceMode = "upload"
       THEN /\ lastOp' = Returned("sync")
            /\ UNCHANGED <<isSyncing, syncProgress, syncPc, approvedFiles,
                           syncI, runLog>>
       ELSE /\ approvedFiles' = ApprovedOf(files)
            /\ isSyncing' = TRUE
            /\ syncProgress' = [current |-> 0, total |-> Len(ApprovedOf(files))]
            /\ syncI' = 1
            /\ syncPc' = "loop"
            /\ runLog' = <<>>
            /\ lastOp' = NoOp
  /\ UNCHANGED <<apiKey, sourceMode, appState, files, error, requests,
                 targetFolderId, confirmTimer, ensVars, folderCache, storeVars,
                 failures, call, prevCall, createIssued, createOk, edits,
                 filter, suspended, selector>>

\* the click on "Apply Changes to Drive" up to the loop
handleSyncToDrive ==
  /\ InReview
  /\ IF sourceMode = "upload" \/ Len(ApprovedOf(files)) = 0
       THEN /\ lastOp' = Returned("sync")
            /\ UNCHANGED <<isSyncing, syncProgress, syncPc, approvedFiles,
                           syncI, runLog>>
       ELSE /\ approvedFiles' = ApprovedOf(files)
            /\ isSyncing' = TRUE
            /\ syncProgress' = [current |-> 0, total |-> Len(ApprovedOf(files))]
            /\ syncI' = 1
            /\ syncPc' = "loop"
            /\ runLog' = <<>>
            /\ lastOp' = NoOp
  /\ UNCHANGED <<apiKey, sourceMode, appState, files, error, requests,
                 targetFolderId, confirmTimer, ensVars, folderCache, storeVars,
                 failures, call, prevCall, createIssued, createOk, edits,
                 filter, suspended, selector>>

\* the loop ran off the end: leave running, arm the completion dialog
SyncFinish ==
  /\ syncPc = "loop"
  /\ ensPc = "idle"
  /\ syncI > Len(approvedFiles)
  /\ isSyncing' = FALSE
  /\ confirmTimer' = TRUE
  /\ syncPc' = "idle"
  /\ approvedFiles' = <<>>
  /\ syncI' = 1
  /\ targetFolderId' = None
  /\ runLog' = <<>>
  /\ UNCHANGED <<apiKey, sourceMode, syncProgress, appState, files, error,
                 requests, ensVars, folderCache, storeVars, failures, call,
                 prevCall, createIssued, createOk, lastOp,
                 edits, filter, suspended, selector>>

\* (variant: a record without analysis is marked as failed)
SyncSkipMarksError ==
  /\ syncPc = "loop"
  /\ ensPc = "idle"
  /\ syncI <= Len(approvedFiles)
  /\ approvedFiles[syncI].analysis = None
  /\ syncI' = syncI + 1
  /\ files' = SetStatusById(files, approvedFiles[syncI].id, "error")
  /\ UNCHANGED <<apiKey, sourceMode, isSyncing, syncProgress, appState, error,
                 requests, syncPc, approvedFiles, targetFolderId, confirmTimer,
                 ensVars, folderCache, storeVars, failures, obsVars, filter,
                 suspended, selector>>

\* if (!file.analysis) continue
SyncSkip ==
  /\ syncPc = "loop"
  /\ ensPc = "idle"
  /\ syncI <= Len(approvedFiles)
  /\ approvedFiles[syncI].analysis = None
  /\ syncI' = syncI + 1
  /\ UNCHANGED <<appVars, requests, syncPc, approvedFiles, targetFolderId,
                 confirmTimer, ensVars, folderCache, storeVars, failures, obsVars,
                 filter, suspended, selector>>

\* applyFileUpdate(file.id, file.analysis.suggestedName, file.parents,
\* targetFolderId) up to its await on files.update
IssueUpdate(file, target) ==
  UpdateCall(file.id, file.analysis[1].suggestedName, file.parents, target)

\* loop body for a record with an analysis whose path is to be resolved
SyncResolve ==
  /\ syncPc = "loop"
  /\ ensPc = "idle"
  /\ syncI <= Len(approvedFiles)
  /\ approvedFiles[syncI].analysis /= None
  /\ NeedsResolve(approvedFiles[syncI].analysis[1].suggestedPath)
  /\ targetFolderId' = None
  /\ syncPc' = "resolve"
  /\ EnsureBegin(approvedFiles[syncI].analysis[1].suggestedPath, "sync")
  /\ runLog' = Append(runLog, [id |-> approvedFiles[syncI].id,
                               resolve |-> "pending", update |-> "none",
                               updates |-> 0,
                               resolved |-> Some(approvedFiles[syncI].analysis[1].suggestedPath),
                               request |-> None])
  /\ UNCHANGED <<appVars, requests, approvedFiles, syncI, confirmTimer,
                 folderCache, storeVars, failures, prevCall, createIssued,
                 createOk, lastOp,
                 edits, filter, suspended, selector>>

\* loop body for a record with an analysis and a root-like path: name only
SyncNoMove ==
  /\ syncPc = "loop"
  /\ ensPc = "idle"
  /\ syncI <= Len(approvedFiles)
  /\ approvedFiles[syncI].analysis /= None
  /\ ~NeedsResolve(approvedFiles[syncI].analysis[1].suggestedPath)
  /\ targetFolderId' = None
  /\ syncPc' = "update"
  /\ runLog' = Append(runLog, [id |-> approvedFiles[syncI].id,
                               resolve |-> "notneeded", update |-> "pending",
                               updates |-> 1,
                               resolved |-> None,
                               request |-> Some(IssueUpdate(approvedFiles[syncI],
                                                            None))])
  /\ UNCHANGED <<appVars, requests, approvedFiles, syncI, confirmTimer, ensVars,
                 folderCache, storeVars, failures, call, prevCall, createIssued,
                 createOk, lastOp,
                 edits, filter, suspended, selector>>

\* ensureFolderPath returned: applyFileUpdate with the folder it gave
SyncResolved ==
  /\ syncPc = "resolve"
  /\ ensPc = "returned"
  /\ ensCaller = "sync"
  /\ targetFolderId' = Some(call.result)
  /\ syncPc' = "update"
  /\ runLog' = [runLog EXCEPT ![Len(runLog)] =
                  [@ EXCEPT !.resolve = "ok", !.update = "pending",
                            !.updates = 1,
                            !.request = Some(IssueUpdate(approvedFiles[syncI],
                                                         Some(call.result)))]]
  /\ EnsureSettles
  /\ call' = NoCall
  /\ UNCHANGED <<appVars, requests, approvedFiles, syncI, confirmTimer,
                 folderCache, storeVars, failures, prevCall, createIssued,
                 createOk, lastOp,
                 edits, filter, suspended, selector>>

\* end of one turn of the loop: status by id, then the progress counter
\* (variant: an error ends the loop)
SyncMarkStopsOnError(st) ==
  /\ files' = SetStatusById(files, approvedFiles[syncI].id, st)
  /\ syncProgress' = ProgressAfter(syncProgress, syncI)
  /\ syncI' = IF st = "error" THEN Len(approvedFiles) + 1 ELSE syncI + 1
  /\ syncPc' = "loop"
SyncMark(st) ==
  /\ files' = SetStatusById(files, approvedFiles[syncI].id, st)
  /\ syncProgress' = ProgressAfter(syncProgress, syncI)
  /\ syncI' = syncI + 1
  /\ syncPc' = "loop"

\* (variant: the update is issued although ensureFolderPath threw)
SyncResolveThrewThenUpdates ==
  /\ syncPc = "resolve"
  /\ ensPc = "threw"
  /\ ensCaller = "sync"
  /\ targetFolderId' = None
  /\ syncPc' = "update"
  /\ runLog' = [runLog EXCEPT ![Len(runLog)] =
                  [@ EXCEPT !.update = "pending", !.updates = 1,
                            !.request = Some(IssueUpdate(approvedFiles[syncI],
                                                         None))]]
  /\ EnsureSettles
  /\ call' = NoCall
  /\ UNCHANGED <<appVars, requests, approvedFiles, syncI, confirmTimer,
                 folderCache, storeVars, failures, prevCall, createIssued,
                 createOk, lastOp, edits, filter, suspended, selector>>

\* ensureFolderPath threw: catch, mark error, go on
SyncResolveThrew ==
  /\ syncPc = "resolve"
  /\ ensPc = "threw"
  /\ ensCaller = "sync"
  /\ SyncMark("error")
  /\ EnsureSettles
  /\ call' = NoCall
  /\ UNCHANGED <<apiKey, sourceMode, isSyncing, appState, error, requests,
                 approvedFiles, targetFolderId, confirmTimer, folderCache,
                 storeVars, failures, prevCall, createIssued, createOk,
                 runLog, lastOp,
                 edits, filter, suspended, selector>>

\* files.update answered: mark synced, go on
UpdateOk ==
  /\ syncPc = "update"
  /\ SyncMark("synced")
  /\ runLog' = [runLog EXCEPT ![Len(runLog)].update = "ok"]
  /\ UNCHANGED <<apiKey, sourceMode, isSyncing, appState, error, requests,
                 approvedFiles, targetFolderId, confirmTimer, ensVars,
                 folderCache, storeVars, failures, call, prevCall, createIssued,
                 createOk, lastOp,
                 edits, filter, suspended, selector>>

\* (variant: a rejected update is sent once more)
UpdateFailsThenRetries ==
  /\ syncPc = "update"
  /\ MayFail
  /\ failures' = failures + 1
  /\ runLog' = [runLog EXCEPT ![Len(runLog)].updates = @ + 1]
  /\ UNCHANGED <<appVars, requests, syncVars, ensVars, folderCache, storeVars,
                 call, prevCall, createIssued, createOk, lastOp, edits, filter,
                 suspended, selector>>

\* (variant: the rejection is not caught and ends the handler)
UpdateFailsEscapes ==
  /\ syncPc = "update"
  /\ MayFail
  /\ failures' = failures + 1
  /\ files' = SetStatusById(files, approvedFiles[syncI].id, "error")
  /\ syncPc' = "idle"
  /\ approvedFiles' = <<>>
  /\ syncI' = 1
  /\ targetFolderId' = None
  /\ runLog' = <<>>
  /\ UNCHANGED <<apiKey, sourceMode, isSyncing, syncProgress, appState, error,
                 requests, confirmTimer, ensVars, folderCache, storeVars, call,
                 prevCall, createIssued, createOk, lastOp, edits, filter,
                 suspended, selector>>

\* files.update rejected: catch, mark error, go on
UpdateFails ==
  /\ syncPc = "update"
  /\ MayFail
  /\ failures' = failures + 1
  /\ SyncMark("error")
  /\ runLog' = [runLog EXCEPT ![Len(runLog)].update = "failed"]
  /\ UNCHANGED <<apiKey, sourceMode, isSyncing, appState, error, requests,
                 approvedFiles, targetFolderId, confirmTimer, ensVars,
                 folderCache, storeVars, call, prevCall, createIssued, createOk,
                 lastOp,
                 edits, filter, suspended, selector>>

\* the completion dialog, 500 ms after the run: a new batch, or stay
ConfirmNewBatch ==
  /\ confirmTimer
  /\ ~Running
  /\ confirmTimer' = FALSE
  /\ files' = <<>>
  /\ appState' = "IDLE"
  /\ requests' = Abandon(requests)
  /\ lastOp' = NoOp
  /\ edits' = NoEdits
  /\ filter' = "all"
  /\ UNCHANGED <<apiKey, sourceMode, isSyncing, syncProgress, error,
                 syncPc, approvedFiles, syncI, targetFolderId, ensVars,
                 folderCache, storeVars, failures, call, prevCall,
                 createIssued, createOk, runLog, suspended, selector>>

ConfirmStay ==
  /\ confirmTimer
  /\ ~Running
  /\ confirmTimer' = FALSE
  /\ UNCHANGED <<appVars, requests, syncPc, approvedFiles, syncI,
                 targetFolderId, ensVars, folderCache, storeVars, failures,
                 obsVars, filter, suspended, selector>>

(***************************************************************************)
(* ReviewTable: the filter of the table (filteredFiles).                   *)
(***************************************************************************)
Filters == {"all", "needs_review", "archive", "sensitive"}

StrManual == <<"m", "a", "n", "u", "a", "l">>
StrManualReview == <<"M", "a", "n", "u", "a", "l", " ", "r", "e", "v", "i", "e", "w">>
StrNeedsManual == <<"n", "e", "e", "d", "s", " ", "M", "A", "N", "U", "A", "L">>
StrClear == <<"c", "l", "e", "a", "r", " ", "m", "a", "t", "c", "h">>

\* String.prototype.toLowerCase() on the letters the model uses
LowerOf(c) ==
  CASE c = "M" -> "m" [] c = "A" -> "a" [] c = "N" -> "n" [] c = "U" -> "u"
    [] c = "L" -> "l" [] OTHER -> c
ToLowerCase(s) == [i \in 1..Len(s) |-> LowerOf(s[i])]

\* String.prototype.includes(sub)
Includes(s, sub) ==
  \E i \in 1..(Len(s) - Len(sub) + 1) : SubSeq(s, i, i + Len(sub) - 1) = sub

\* confidence is a number of hundredths; (f.analysis?.confidence || 1):
\* a missing analysis, a missing confidence and the confidence 0 give 1
ConfidenceOr1(analysis) ==
  IF analysis = None THEN 100
  ELSE IF analysis[1].confidence = None THEN 100
  ELSE IF analysis[1].confidence[1] = 0 THEN 100
  ELSE analysis[1].confidence[1]

\* the callback of files.filter in filteredFiles
Keeps(f, flt) ==
  IF f.status /= "pending" /\ flt /= "all" THEN FALSE
  ELSE IF flt = "needs_review"
    THEN \/ /\ f.analysis /= None
            /\ Includes(ToLowerCase(f.analysis[1].reasoning), StrManual)
         \/ ConfidenceOr1(f.analysis) < 80
  ELSE IF flt = "archive"
    THEN f.analysis /= None /\ f.analysis[1].shouldArchive
  ELSE IF flt = "sensitive"
    THEN /\ f.analysis /= None
         /\ f.analysis[1].sensitivity \in {"High Risk", "Confidential"}
  ELSE TRUE

filteredFiles(fs, flt) == SelectSeq(fs, LAMBDA f : Keeps(f, flt))

\* a click on one of the filter buttons of the table
setFilter(flt) ==
  /\ apiKey
  /\ appState = "REVIEW"
  /\ filter' = flt
  /\ UNCHANGED <<appVars, requests, syncVars, ensVars, folderCache, storeVars,
                 failures, obsVars, suspended, selector>>

\* the analyses a classifier response can carry for file 1, with the fields
\* the filter reads
FullAnalyses ==
  {[fileId |-> 1, category |-> "01_Work", suggestedName |-> "suggested",
    suggestedPath |-> StrAB, shouldArchive |-> a, sensitivity |-> s,
    reasoning |-> r, confidence |-> c] :
     a \in BOOLEAN, s \in {"Normal", "Confidential", "High Risk"},
     r \in {StrManualReview, StrNeedsManual, StrClear},
     c \in {None, Some(0), Some(1), Some(79), Some(80), Some(100)}}

\* the one-record batches the table can be showing: any status with an
\* analysis, and the statuses a record without analysis can have
ShownBatches ==
  {<<[id |-> 1, name |-> "original", parents |-> ParentsOf(1), status |-> st,
      analysis |-> Some(an)]>> :
     st \in {"pending", "approved", "rejected", "synced", "error"},
     an \in FullAnalyses}
    \cup {<<[id |-> 1, name |-> "original", parents |-> ParentsOf(1),
             status |-> st, analysis |-> None]>> :
            st \in {"pending", "approved", "rejected"}}

(***************************************************************************)
(* A second invocation of handleSyncToDrive.                               *)
(***************************************************************************)
\* no second invocation: the locals of an invocation that is not running
NoRun ==
  [syncPc |-> "idle", approvedFiles |-> <<>>, syncI |-> 1,
   targetFolderId |-> None, ensPc |-> "idle", ensCaller |-> "none",
   parts |-> <<>>, partIdx |-> 1, currentParentId |-> Root,
   currentPathStr |-> <<>>, call |-> NoCall, runLog |-> <<>>]

\* the locals of the invocation held in the sync and resolver variables
Locals ==
  [syncPc |-> syncPc, approvedFiles |-> approvedFiles, syncI |-> syncI,
   targetFolderId |-> targetFolderId, ensPc |-> ensPc, ensCaller |-> ensCaller,
   parts |-> parts, partIdx |-> partIdx, currentParentId |-> currentParentId,
   currentPathStr |-> currentPathStr, call |-> call, runLog |-> runLog]

\* control passes to the invocation r, the other one waits in its place
SwitchTo(r, waiting) ==
  /\ suspended' = waiting
  /\ syncPc' = r.syncPc
  /\ approvedFiles' = r.approvedFiles
  /\ syncI' = r.syncI
  /\ targetFolderId' = r.targetFolderId
  /\ ensPc' = r.ensPc
  /\ ensCaller' = r.ensCaller
  /\ parts' = r.parts
  /\ partIdx' = r.partIdx
  /\ currentParentId' = r.currentParentId
  /\ currentPathStr' = r.currentPathStr
  /\ call' = r.call
  /\ runLog' = r.runLog

\* handleSyncToDrive is invoked once more while an invocation waits for the
\* store (the button keeps the focus under the overlay and the handler
\* does not test isSyncing): the same code up to the loop
handleSyncToDriveWhileSyncing ==
  /\ apiKey
  /\ appState = "REVIEW"
  /\ isSyncing
  /\ syncPc \in {"resolve", "update"}
  /\ ~Running
  /\ suspended = NoRun
  /\ IF sourceMode = "upload" \/ Len(ApprovedOf(files)) = 0
       THEN /\ lastOp' = Returned("sync")
            /\ UNCHANGED <<isSyncing, syncProgress, syncVars, ensVars, call,
                           runLog, suspended>>
       ELSE /\ isSyncing' = TRUE
            /\ syncProgress' = [current |-> 0, total |-> Len(ApprovedOf(files))]
            /\ SwitchTo([NoRun EXCEPT !.syncPc = "loop",
                                      !.approvedFiles = ApprovedOf(files)],
                        Locals)
            /\ lastOp' = NoOp
  /\ UNCHANGED <<apiKey, sourceMode, appState, files, error, requests,
                 confirmTimer, folderCache, storeVars, failures, prevCall,
                 createIssued, createOk, edits, filter, selector>>

\* the store answers the invocation that waits: it goes on, and the one
\* that ran waits at its await (or has ended)
ResumeOther ==
  /\ suspended /= NoRun
  /\ ~Running
  /\ SwitchTo(suspended, IF syncPc = "idle" THEN NoRun ELSE Locals)
  /\ UNCHANGED <<appVars, requests, confirmTimer, folderCache, storeVars,
                 failures, prevCall, createIssued, createOk, lastOp, edits,
                 filter, selector>>

(***************************************************************************)
(* DriveSelector: navigation, listing and selection.                       *)
(***************************************************************************)
\* number of listing requests that can be unanswered in the model
MaxFetches == 2

\* identifiers the listing gives the folder "a" and the folder inside it
DriveFolderA == 11
DriveFolderB == 12

\* the file lies in this folder of the listing
LiesIn(id, folderId) ==
  IF folderId = Root THEN ParentsOf(id) = None
  ELSE IF folderId = DriveFolderA THEN IsAlreadyHere(ParentsOf(id), 1)
  ELSE FALSE

FolderEntries(folderId) ==
  IF folderId = Root THEN <<[id |-> DriveFolderA, isFolder |-> TRUE]>>
  ELSE IF folderId = DriveFolderA THEN <<[id |-> DriveFolderB, isFolder |-> TRUE]>>
  ELSE <<>>

\* listDriveFiles(folderId): what lies in the folder, folders first
ListingOf(folderId) ==
  FolderEntries(folderId) \o
    [k \in 1..Cardinality({id \in FileIds : LiesIn(id, folderId)}) |->
       [id |-> SeqOfSet({id \in FileIds : LiesIn(id, folderId)})[k],
        isFolder |-> FALSE]]

\* the component as it is mounted
NoSelector ==
  [isConnected |-> FALSE, files |-> <<>>, loadingFiles |-> FALSE,
   selectedIds |-> {}, folderStack |-> <<Root>>, fetches |-> <<>>]

\* the component is rendered: idle view, Drive as the source
SelectorShown == InIdleView /\ sourceMode = "drive"

\* connected, and the rows of the listing are rendered
RowsShown == SelectorShown /\ selector.isConnected /\ ~selector.loadingFiles

selectorFrame ==
  UNCHANGED <<appVars, requests, syncVars, ensVars, folderCache, storeVars,
              failures, obsVars, filter, suspended>>

\* fetchFiles(folderId) up to its await on listDriveFiles
fetchFiles(sel, folderId) ==
  [sel EXCEPT !.loadingFiles = TRUE, !.fetches = Append(@, folderId)]

CanFetch == Len(selector.fetches) < MaxFetches

\* handleConnect from the answer to requestAccessToken on
handleConnect ==
  /\ SelectorShown
  /\ ~selector.isConnected
  /\ CanFetch
  /\ selector' = fetchFiles([selector EXCEPT !.isConnected = TRUE], Root)
  /\ selectorFrame

handleSwitchAccount ==
  /\ SelectorShown
  /\ selector.isConnected
  /\ selector' = [selector EXCEPT !.isConnected = FALSE, !.files = <<>>,
                                  !.folderStack = <<Root>>]
  /\ selectorFrame

handleFolderClick(folder) ==
  /\ RowsShown
  /\ CanFetch
  /\ selector' = fetchFiles([selector EXCEPT !.folderStack = Append(@, folder.id)],
                            folder.id)
  /\ selectorFrame

handleBreadcrumbClick(index) ==
  /\ SelectorShown
  /\ selector.isConnected
  /\ CanFetch
  /\ LET newStack == SubSeq(selector.folderStack, 1, index + 1)
     IN selector' = fetchFiles([selector EXCEPT !.folderStack = newStack],
                               newStack[Len(newStack)])
  /\ selectorFrame

handleBack ==
  /\ SelectorShown
  /\ selector.isConnected
  /\ CanFetch
  /\ Len(selector.folderStack) > 1
  /\ LET newStack == SubSeq(selector.folderStack, 1, Len(selector.folderStack) - 1)
     IN selector' = fetchFiles([selector EXCEPT !.folderStack = newStack],
                               newStack[Len(newStack)])
  /\ selectorFrame

\* the refresh button: fetchFiles(currentFolder.id)
handleRefresh ==
  /\ SelectorShown
  /\ selector.isConnected
  /\ CanFetch
  /\ selector' = fetchFiles(selector,
                            selector.folderStack[Len(selector.folderStack)])
  /\ selectorFrame

handleSelection(id, isFolder) ==
  /\ RowsShown
  /\ selector' = IF isFolder THEN selector
                 ELSE [selector EXCEPT !.selectedIds =
                         IF id \in @ THEN @ \ {id} ELSE @ \cup {id}]
  /\ selectorFrame

\* the click on a row of the listing
handleRowClick(row) ==
  IF row.isFolder THEN handleFolderClick(row) ELSE handleSelection(row.id, row.isFolder)

Without(seq, i) == SubSeq(seq, 1, i - 1) \o SubSeq(seq, i + 1, Len(seq))

\* fetchFiles from the answer of listDriveFiles on: setFiles, then finally
ListReturns(i) ==
  /\ SelectorShown
  /\ i \in 1..Len(selector.fetches)
  /\ selector' = [selector EXCEPT !.files = ListingOf(selector.fetches[i]),
                                  !.loadingFiles = FALSE,
                                  !.fetches = Without(@, i)]
  /\ selectorFrame

\* listDriveFiles rejects: catch (a 401 disconnects), then finally
ListFails(i, expired) ==
  /\ SelectorShown
  /\ i \in 1..Len(selector.fetches)
  /\ MayFail
  /\ failures' = failures + 1
  /\ selector' = [selector EXCEPT !.isConnected = IF expired THEN FALSE ELSE @,
                                  !.loadingFiles = FALSE,
                                  !.fetches = Without(@, i)]
  /\ UNCHANGED <<appVars, requests, syncVars, ensVars, folderCache, storeVars,
                 obsVars, filter, suspended>>

\* files.filter(f => selectedIds.has(f.id)), as ids
SelectedOf(sel) ==
  LET picked == SelectSeq(sel.files, LAMBDA f : f.id \in sel.selectedIds)
  IN [k \in 1..Len(picked) |-> picked[k].id]

\* the click on "Analyze Selected": the descriptors of the filtered listing
\* are handed to onFilesSelected (the awaits on getFileContent in between
\* read the store and change nothing)
handleAnalyzeSelection ==
  /\ SelectorShown
  /\ selector.isConnected
  /\ selector.selectedIds /= {}
  /\ handleFilesSelected(SelectedOf(selector))

(***************************************************************************)
(* Specifications.                                                         *)
(***************************************************************************)
Init ==
  /\ apiKey = FALSE
  /\ sourceMode = "drive"
  /\ isSyncing = FALSE
  /\ syncProgress = [current |-> 0, total |-> 0]
  /\ appState = "IDLE"
  /\ files = <<>>
  /\ error = "null"
  /\ requests = NoRequests
  /\ syncPc = "idle"
  /\ approvedFiles = <<>>
  /\ syncI = 1
  /\ targetFolderId = None
  /\ confirmTimer = FALSE
  /\ ensPc = "idle"
  /\ ensCaller = "none"
  /\ parts = <<>>
  /\ partIdx = 1
  /\ currentParentId = Root
  /\ currentPathStr = <<>>
  /\ folderCache = <<>>
  /\ folders = InitFolders
  /\ nextId = 2
  /\ failures = 0
  /\ call = NoCall
  /\ prevCall = NoCall
  /\ createIssued = <<>>
  /\ createOk = <<>>
  /\ runLog = <<>>
  /\ lastOp = NoOp
  /\ edits = NoEdits
  /\ filter = "all"
  /\ suspended = NoRun
  /\ selector = NoSelector

Ensure == EnsureWalk \/ FindFolderFound \/ FindFolderNull \/ CreateFolderOk
            \/ EnsureCallFails

Next ==
  \/ handleLogin
  \/ handleLogout
  \/ \E mode \in {"drive", "upload"} : setSourceMode(mode)
  \/ handleReset
  \/ \E selection \in Selections : handleFilesSelected(selection)
  \/ \E which \in {"current", "stale"} : \E body \in Bodies :
       ClassifyReturns(which, body)
  \/ \E which \in {"current", "stale"} : \E body \in Bodies :
       ClassifyThrows(which, body)
  \/ \E id \in FileIds : handleApprove(id)
  \/ \E id \in FileIds : handleReject(id)
  \/ handleApproveAll
  \/ \E id \in FileIds : \E path \in EditedPaths :
       handleUpdateAnalysis(id, "edited", path)
  \/ handleSyncToDrive
  \/ SyncSkip
  \/ SyncResolve
  \/ SyncNoMove
  \/ SyncResolved
  \/ SyncResolveThrew
  \/ UpdateOk
  \/ UpdateFails
  \/ SyncFinish
  \/ ConfirmNewBatch
  \/ ConfirmStay
  \/ Ensure

Spec == Init /\ [][Next]_vars

\* the resolver on its own: callers resolve one path after another
NextResolver ==
  \/ \E path \in Paths : DirectResolve(path)
  \/ DirectSettled
  \/ Ensure

SpecResolver == Init /\ [][NextResolver]_vars

\* the sync handler invoked again while it runs: one batch is selected,
\* classified and approved, and the handler is invoked up to twice
NextSyncRuns ==
  \/ handleLogin
  \/ \E selection \in Selections : handleFilesSelected(selection)
  \/ \E body \in Bodies : ClassifyReturns("current", body)
  \/ \E id \in FileIds : \E path \in EditedPaths :
       handleUpdateAnalysis(id, "edited", path)
  \/ handleApproveAll
  \/ handleSyncToDrive
  \/ handleSyncToDriveWhileSyncing
  \/ ResumeOther
  \/ SyncSkip
  \/ SyncResolve
  \/ SyncNoMove
  \/ SyncResolved
  \/ SyncResolveThrew
  \/ UpdateOk
  \/ UpdateFails
  \/ SyncFinish
  \/ Ensure

SpecSyncRuns == Init /\ [][NextSyncRuns]_vars

\* ingestion, classification and review on their own: no sync is started
NextReview ==
  \/ handleLogin
  \/ handleLogout
  \/ \E mode \in {"drive", "upload"} : setSourceMode(mode)
  \/ handleReset
  \/ \E selection \in Selections : handleFilesSelected(selection)
  \/ \E which \in {"current", "stale"} : \E body \in Bodies :
       ClassifyReturns(which, body)
  \/ \E which \in {"current", "stale"} : \E body \in Bodies :
       ClassifyThrows(which, body)
  \/ \E id \in FileIds : handleApprove(id)
  \/ \E id \in FileIds : handleReject(id)
  \/ handleApproveAll
  \/ \E id \in FileIds : \E path \in EditedPaths :
       handleUpdateAnalysis(id, "edited", path)

SpecReview == Init /\ [][NextReview]_vars

\* the paths the edit form can hold that name no folder
RootLikePaths == {Str0, StrSlash, StrDot}

\* the sync executor with its scheduling: the event loop goes on with a
\* handler whose await has settled, and the store answers every call
StoreAnswers ==
  \/ FindFolderFound
  \/ FindFolderNull
  \/ CreateFolderOk
  \/ EnsureCallFails
  \/ UpdateOk
  \/ UpdateFails

SyncGoesOn ==
  \/ EnsureWalk
  \/ SyncSkip
  \/ SyncResolve
  \/ SyncNoMove
  \/ SyncResolved
  \/ SyncResolveThrew
  \/ SyncFinish

NextSyncLive ==
  \/ handleLogin
  \/ \E selection \in Selections : handleFilesSelected(selection)
  \/ \E body \in Bodies : ClassifyReturns("current", body)
  \/ \E id \in FileIds : handleApprove(id)
  \/ \E id \in FileIds : \E path \in EditedPaths \cup RootLikePaths :
       handleUpdateAnalysis(id, "edited", path)
  \/ handleSyncToDrive
  \/ ConfirmStay
  \/ StoreAnswers
  \/ SyncGoesOn

SpecSyncLive ==
  Init /\ [][NextSyncLive]_vars /\ WF_vars(StoreAnswers) /\ WF_vars(SyncGoesOn)

\* the Drive selector on its own: the user is logged in and picks files
NextSelector ==
  \/ handleLogin
  \/ handleConnect
  \/ handleSwitchAccount
  \/ \E k \in 1..Len(selector.files) : handleRowClick(selector.files[k])
  \/ \E index \in 0..(Len(selector.folderStack) - 1) : handleBreadcrumbClick(index)
  \/ handleBack
  \/ handleRefresh
  \/ \E i \in 1..MaxFetches : ListReturns(i)
  \/ \E i \in 1..MaxFetches : \E expired \in BOOLEAN : ListFails(i, expired)
  \/ handleAnalyzeSelection

SpecSelector == Init /\ [][NextSelector]_vars

\* the table on its own: a batch under review, the user switches filters
InitFilter ==
  /\ apiKey = TRUE
  /\ sourceMode = "drive"
  /\ isSyncing = FALSE
  /\ syncProgress = [current |-> 0, total |-> 0]
  /\ appState = "REVIEW"
  /\ files \in ShownBatches
  /\ error = "null"
  /\ requests = NoRequests
  /\ syncPc = "idle"
  /\ approvedFiles = <<>>
  /\ syncI = 1
  /\ targetFolderId = None
  /\ confirmTimer = FALSE
  /\ ensPc = "idle"
  /\ ensCaller = "none"
  /\ parts = <<>>
  /\ partIdx = 1
  /\ currentParentId = Root
  /\ currentPathStr = <<>>
  /\ folderCache = <<>>
  /\ folders = InitFolders
  /\ nextId = 2
  /\ failures = 0
  /\ call = NoCall
  /\ prevCall = NoCall
  /\ createIssued = <<>>
  /\ createOk = <<>>
  /\ runLog = <<>>
  /\ lastOp = NoOp
  /\ edits = NoEdits
  /\ filter = "all"
  /\ suspended = NoRun
  /\ selector = NoSelector

NextFilter == \E flt \in Filters : setFilter(flt)

SpecFilter == InitFilter /\ [][NextFilter]_vars

(***************************************************************************)
(* Review state machine: status transitions.                               *)
(***************************************************************************)
StatusOf(fs, id) == {fs[k].status : k \in {j \in 1..Len(fs) : fs[j].id = id}}

\* the step is an ingestion: the record sequence is replaced
IngestStep == \E selection \in Selections : handleFilesSelected(selection)

\* the same records before and after the step
SameRecords ==
  /\ Len(files') = Len(files)
  /\ \A k \in 1..Len(files) : files'[k].id = files[k].id

\* C1: approve(id) or reject(id) on a record that is not pending leaves the
\* status of that record as it was.
C1_ApproveRejectOnlyFromPending ==
  [][\A id \in FileIds :
       (handleApprove(id) \/ handleReject(id)) =>
         \A k \in 1..Len(files) :
           (files[k].id = id /\ files[k].status /= "pending") =>
             files'[k].status = files[k].status]_vars

AllowedEdges ==
  {<<"pending", "approved">>, <<"pending", "rejected">>,
   <<"approved", "synced">>, <<"approved", "error">>, <<"error", "approved">>}

\* C2: between ingestions a status changes only along pending->approved,
\* pending->rejected, approved->synced, approved->error and error->approved;
\* rejected and synced records keep their status.
C2_StatusLifecycle ==
  [][(SameRecords /\ ~IngestStep) =>
       \A k \in 1..Len(files) :
         \/ files'[k].status = files[k].status
         \/ <<files[k].status, files'[k].status>> \in AllowedEdges]_vars

\* C3: every approved or synced record has an analysis.
C3_ApprovedHasAnalysis ==
  \A k \in 1..Len(files) :
    files[k].status \in {"approved", "synced"} => files[k].analysis /= None

(***************************************************************************)
(* Sync executor: outcome per record and progress.                         *)
(***************************************************************************)
\* the step on which a run leaves the running state
RunEnds == isSyncing /\ ~isSyncing'

WithAnalysis(fs) == SelectSeq(fs, LAMBDA f : f.analysis /= None)

CountStatus(fs, ids, st) ==
  Cardinality({k \in 1..Len(fs) : fs[k].id \in ids /\ fs[k].status = st})

\* C4: when a run ends, every record of the batch that has an analysis was
\* processed, in order; it is synced if the store answered its resolution
\* (when one was needed) and its update with success, and error if either
\* failed.  With exactly one failed update and no other failure, all but
\* one of the N processed records are synced and one is error.
C4_SyncIsolatesFailures ==
  [][RunEnds =>
       LET batch == WithAnalysis(approvedFiles)
           ids == {batch[k].id : k \in 1..Len(batch)}
           failed == {k \in 1..Len(runLog) :
                        runLog[k].resolve = "failed" \/ runLog[k].update = "failed"}
       IN /\ Len(runLog) = Len(batch)
          /\ \A k \in 1..Len(batch) :
               /\ runLog[k].id = batch[k].id
               /\ (runLog[k].resolve \in {"ok", "notneeded"} /\ runLog[k].update = "ok")
                    \/ k \in failed
               /\ StatusOf(files', batch[k].id) =
                    {IF k \in failed THEN "error" ELSE "synced"}
          /\ (Cardinality(failed) = 1) =>
               /\ CountStatus(files', ids, "synced") = Len(batch) - 1
               /\ CountStatus(files', ids, "error") = 1]_vars

\* C4 witness: a run has ended with one record synced after another was left in error
C4_Witness ==
  /\ confirmTimer
  /\ ~isSyncing
  /\ Len(files) = 2
  /\ files[1].status = "error"
  /\ files[2].status = "synced"
  /\ syncProgress = [current |-> 2, total |-> 2]

\* C5: when a run over N approved records ends, current = total = N.
C5_ProgressReachesTotal ==
  [][RunEnds =>
       /\ syncProgress'.total = Len(approvedFiles)
       /\ syncProgress'.current = syncProgress'.total]_vars

(***************************************************************************)
(* Folder path resolver.                                                   *)
(***************************************************************************)
Count(f, key) == IF key \in DOMAIN f THEN f[key] ELSE 0

\* C6: no path prefix ever gets a second create-folder call.
C6_OneCreateCallPerPrefix ==
  \A key \in DOMAIN createIssued : createIssued[key] <= 1

\* C6 (amended): at most one create-folder call succeeds per prefix; a
\* created prefix stays in the cache and gets no further find or create
\* call; a prefix gets one more create call only per failed store call.
C6_OneCreatedFolderPerPrefix ==
  \A key \in DOMAIN createIssued :
    /\ Count(createOk, key) <= 1
    /\ createIssued[key] <= 1 + failures
    /\ Count(createOk, key) = 1 =>
         /\ key \in DOMAIN folderCache
         /\ ~(ensPc \in {"find", "create"} /\ currentPathStr = key)

\* C6 witness: a prefix whose first create call failed was created by a later resolve,
\* and a path through it has been resolved again since
C6_Witness ==
  /\ Count(createIssued, StrB) = 2
  /\ Count(createOk, StrB) = 1
  /\ call.path = StrBA
  /\ call.status = "returned"
  /\ prevCall.status = "returned"

\* two calls in succession for the same path with at least one segment,
\* the first of which returned
TwiceInSuccession ==
  /\ prevCall.status = "returned"
  /\ call.status /= "none"
  /\ call.path = prevCall.path
  /\ Len(SelectSeq(Split(call.path), LAMBDA p : \E j \in 1..Len(p) : p[j] /= " ")) > 0

\* C7: the second of two calls in succession for a non-empty path returns
\* the identifier the first returned and issues no create-folder call.
C7_ResolveTwiceSameFolder ==
  TwiceInSuccession =>
    /\ call.creates = 0
    /\ call.status /= "threw"
    /\ call.status = "returned" => call.result = prevCall.result

\* C7 witness: b/a was resolved twice; the first call created both folders
C7_Witness ==
  /\ TwiceInSuccession
  /\ call.path = StrBA
  /\ call.status = "returned"
  /\ prevCall.creates = 2

\* C8: for "", "/" and "." resolve returns the root identifier and issues
\* no find-folder or create-folder call.
C8_RootPathsContactNoStore ==
  (call.status /= "none" /\ call.path \in {Str0, StrSlash, StrDot}) =>
    /\ call.status = "returned"
    /\ call.result = Root
    /\ call.finds = 0
    /\ call.creates = 0

\* C9: after a resolve call failed, the cache holds the prefixes of the path
\* before the failing one, and neither the failing prefix nor a longer one.
C9_FailureCachesOnlyResolvedPrefixes ==
  call.status = "threw" =>
    LET ps == SelectSeq(MapTrim(Split(call.path)), NonEmptyStr) IN
    /\ call.failedAt \in 1..Len(ps)
    /\ \A j \in 1..Len(ps) :
         PrefixKey(ps, j) \in DOMAIN folderCache <=> j < call.failedAt

\* C9 witness: the call for b/a failed at its second segment, after b had been created
C9_Witness ==
  /\ call.status = "threw"
  /\ call.path = StrBA
  /\ call.failedAt = 2
  /\ call.creates = 2
  /\ StrB \in DOMAIN folderCache

(***************************************************************************)
(* Remote mutation applier.                                                *)
(***************************************************************************)
IdsOf(opt) == IF opt = None THEN {} ELSE {opt[1][k] : k \in 1..Len(opt[1])}

Requests == {runLog[k].request[1] : k \in {j \in 1..Len(runLog) : runLog[j].request /= None}}

\* the request names the file and the new name, and either moves the file
\* (adds the target, removes every current parent) or carries nothing more
RequestMovesIff(r, move) ==
  /\ r.params.fileId = r.fileId
  /\ r.params.name = r.newName
  /\ move =>
       /\ r.params.addParents = r.targetFolderId
       /\ IdsOf(r.params.removeParents) = IdsOf(r.currentParents)
  /\ ~move =>
       /\ r.params.addParents = None
       /\ r.params.removeParents = None

\* C10: a reparent is requested exactly when a target is given that is not
\* among the current parents, the root identifier included.
C10_ReparentIffNewTarget ==
  \A r \in Requests :
    RequestMovesIff(r, r.targetFolderId /= None
                         /\ r.targetFolderId[1] \notin IdsOf(r.currentParents))

\* C10 (amended): a reparent is requested exactly when a target is given
\* that is neither the root identifier nor among the current parents.
C10_ReparentIffNewNonRootTarget ==
  \A r \in Requests :
    RequestMovesIff(r, /\ r.targetFolderId /= None
                       /\ r.targetFolderId[1] /= Root
                       /\ r.targetFolderId[1] \notin IdsOf(r.currentParents))

\* C10 witness: one run sent a request with the root as target and a request that moves
\* a file out of its parent
C10_Witness ==
  /\ \E r \in Requests :
       /\ r.targetFolderId = Some(Root)
       /\ r.params.addParents = None
  /\ \E r \in Requests :
       /\ r.params.addParents /= None
       /\ r.params.removeParents /= None

(***************************************************************************)
(* Review state machine: approveAll, error outcomes, edits.                *)
(***************************************************************************)
\* C11: approveAll turns exactly the pending records into approved ones,
\* leaves every other record (status and analysis) as it was, and applied a
\* second time changes nothing.
C11_ApproveAllExactlyPending ==
  [][(lastOp'.op = "approveAll" /\ handleApproveAll) =>
       /\ Len(files') = Len(files)
       /\ \A k \in 1..Len(files) :
            IF files[k].status = "pending"
              THEN files'[k] = [files[k] EXCEPT !.status = "approved"]
              ELSE files'[k] = files[k]
       /\ ApproveAll(files') = files']_vars

\* C11 witness: approveAll ran last on a batch that holds a rejected record
\* beside an approved one
C11_Witness ==
  /\ lastOp = Returned("approveAll")
  /\ Len(files) = 2
  /\ files[1].status = "rejected"
  /\ files[2].status = "approved"

\* the record with this id exists and is not pending
NotPending(fs, id) ==
  \E k \in 1..Len(fs) : fs[k].id = id /\ fs[k].status /= "pending"

\* C12: approve(id) or reject(id) on a record that is not pending signals
\* InvalidTransition to its caller: the handler does not just return, or
\* the error the page shows is set to it.
C12_InvalidTransitionSignalled ==
  [][\A id \in FileIds :
       ((handleApprove(id) \/ handleReject(id)) /\ NotPending(files, id)) =>
         \/ lastOp'.outcome = "InvalidTransition"
         \/ error' = "InvalidTransition"]_vars

\* C13: a record edited before the sync started is synced with the edited
\* values: the path handed to the resolver is the edited path (none when
\* the edited path needs no resolution) and the name sent to the store is
\* the edited name.
C13_SyncUsesEditedValues ==
  \A k \in 1..Len(runLog) :
    LET e == edits[runLog[k].id] IN
    e /= None =>
      /\ runLog[k].resolved =
           IF NeedsResolve(e[1].path) THEN Some(e[1].path) ELSE None
      /\ runLog[k].request /= None =>
           runLog[k].request[1].params.name = e[1].name

\* the step is the save of an edit
EditStep ==
  \E id \in FileIds : \E path \in EditedPaths :
    handleUpdateAnalysis(id, "edited", path)

\* C14: no edit changes the analysis of a record that is synced.
C14_SyncedAnalysisNotEdited ==
  [][EditStep =>
       \A k \in 1..Len(files) :
         files[k].status = "synced" => files'[k].analysis = files[k].analysis]_vars

\* the record with this id exists and has no analysis
NoAnalysis(fs, id) ==
  \E k \in 1..Len(fs) : fs[k].id = id /\ fs[k].analysis = None

\* C15: an edit of a record that has no analysis leaves it without one and
\* ends with NoAnalysisPresent for its caller: the handler does not just
\* return, or the error the page shows is set to it.
C15_EditWithoutAnalysisFails ==
  [][\A id \in FileIds : \A path \in EditedPaths :
       (handleUpdateAnalysis(id, "edited", path) /\ NoAnalysis(files, id)) =>
         /\ NoAnalysis(files', id)
         /\ \/ lastOp'.outcome = "NoAnalysisPresent"
            \/ error' = "NoAnalysisPresent"]_vars

(***************************************************************************)
(* Classification gateway and ingestion.                                   *)
(***************************************************************************)
\* C16: when the classification call for the current records fails, every
\* record is pending without analysis afterwards (none carries a failure
\* status), the batch-level error is set and the application is idle.
C16_GatewayFailureIsBatchLevel ==
  [][(\E body \in Bodies : ClassifyThrows("current", body)) =>
       /\ Len(files') = Len(files)
       /\ \A k \in 1..Len(files') :
            files'[k].status = "pending" /\ files'[k].analysis = None
       /\ error' /= "null"
       /\ appState' = "IDLE"]_vars

\* C17: classify succeeds only on a response that parses into a list of
\* results; a failed call and a malformed, non-list or empty response make
\* the whole call fail.
C17_ClassifyFailsAsAUnit ==
  (lastOp.op = "classify" /\ lastOp.arg /= "list") => lastOp.outcome = "threw"

\* C18: an ingestion replaces the records by the given descriptors, in
\* order, each pending and without analysis.
C18_IngestReplacesRecords ==
  [][files' /= files =>
       \A selection \in Selections :
         handleFilesSelected(selection) =>
           /\ Len(files') = Len(selection)
           /\ \A k \in 1..Len(selection) :
                /\ files'[k].id = selection[k]
                /\ files'[k].name = Descriptor(selection[k]).name
                /\ files'[k].parents =
                     IF sourceMode = "upload" THEN None
                     ELSE Descriptor(selection[k]).parents
                /\ files'[k].status = "pending"
                /\ files'[k].analysis = None]_vars

\* C18 witness: file 2 alone was ingested after a batch whose sync had
\* resolved a folder
C18_Witness ==
  /\ appState = "ANALYZING"
  /\ requests.current = 1
  /\ Len(files) = 1
  /\ files[1].id = 2
  /\ files[1].status = "pending"
  /\ DOMAIN folderCache /= {}

UserDecides == \E id \in FileIds : handleApprove(id) \/ handleReject(id)

\* C20: a record in error leaves that status only by an explicit user
\* decision; a run takes up no record that is in error when it starts, and
\* the only records in error a run has issued store calls for are those
\* that failed in this very run.
C20_ErrorNotRetried ==
  [][/\ \A k \in 1..Len(files) :
          (/\ files[k].status = "error"
           /\ SameRecords
           /\ files'[k].status /= "error"
           /\ ~IngestStep) => UserDecides
     /\ handleSyncToDrive =>
          \A k \in 1..Len(approvedFiles') :
            StatusOf(files, approvedFiles'[k].id) = {"approved"}
     /\ \A k \in 1..Len(runLog') :
          StatusOf(files', runLog'[k].id) = {"error"} =>
            (runLog'[k].resolve = "failed" \/ runLog'[k].update = "failed")]_vars

\* C20 witness: a run is issuing a store call for file 2 while file 1 is
\* in error from an earlier run
C20_Witness ==
  /\ isSyncing
  /\ Len(approvedFiles) = 1
  /\ approvedFiles[1].id = 2
  /\ Len(runLog) = 1
  /\ StatusOf(files, 1) = {"error"}

(***************************************************************************)
(* Concurrency of classification and sync.                                 *)
(***************************************************************************)
\* C21: at most one classification request is outstanding at any time.
C21_OneClassificationOutstanding == Outstanding(requests) <= 1

\* a sync run is in progress
SyncActive == isSyncing \/ syncPc /= "idle"

\* C22: while a sync run is in progress no classification request is
\* outstanding, and while a request is outstanding no run is in progress.
C22_ClassifyAndSyncExclusive == ~(SyncActive /\ Outstanding(requests) > 0)

(***************************************************************************)
(* Sync executor: the empty batch.                                         *)
(***************************************************************************)
NoneApproved(fs) == \A k \in 1..Len(fs) : fs[k].status /= "approved"

\* C24: a sync invoked when no record is approved changes nothing: the
\* syncing flag stays false, the progress pair, the records and every other
\* part of the program state are as before, and no store call is issued.
C24_EmptySyncChangesNothing ==
  [][(NoneApproved(files) /\ handleSyncToDrive) =>
       /\ ~isSyncing'
       /\ UNCHANGED <<appVars, requests, syncVars, ensVars, folderCache,
                      storeVars, failures, call, prevCall, createIssued,
                      createOk, runLog, edits>>]_vars

\* C24 witness: sync was invoked in Drive mode on a batch that holds a synced
\* and a rejected record and none that is approved
C24_Witness ==
  /\ lastOp = Returned("sync")
  /\ sourceMode = "drive"
  /\ ~isSyncing
  /\ Len(files) = 2
  /\ files[1].status = "synced"
  /\ files[2].status = "rejected"
  /\ syncProgress = [current |-> 1, total |-> 1]

(***************************************************************************)
(* ReviewTable: the needs-review filter.                                   *)
(***************************************************************************)
\* the reasoning mentions a manual review, in whatever case
Flagged(reasoning) == Includes(ToLowerCase(reasoning), StrManual)

\* C25: under the needs-review filter a record is shown exactly when it is
\* pending and its analysis has a confidence below 0.8 (0 included) or a
\* reasoning flagged for manual review.
C25_NeedsReviewFilter ==
  filter = "needs_review" =>
    \A k \in 1..Len(files) :
      (Len(filteredFiles(<<files[k]>>, filter)) = 1) <=>
        /\ files[k].status = "pending"
        /\ files[k].analysis /= None
        /\ \/ /\ files[k].analysis[1].confidence /= None
              /\ files[k].analysis[1].confidence[1] < 80
           \/ Flagged(files[k].analysis[1].reasoning)

(***************************************************************************)
(* Sync executor: order of the store calls.                                *)
(***************************************************************************)
\* store calls that have been issued and not answered
InFlight ==
  (IF ensPc \in {"find", "create"} THEN 1 ELSE 0)
    + (IF syncPc = "update" THEN 1 ELSE 0)

\* every store call for the record of this log entry has been answered
Completed(entry) ==
  \/ entry.resolve = "failed" /\ entry.update = "none"
  \/ entry.resolve \in {"ok", "notneeded"} /\ entry.update \in {"ok", "failed"}

\* the position of the record with this id in the sequence
PositionOf(fs, id) == CHOOSE k \in 1..Len(fs) : fs[k].id = id

\* C23: during a run at most one store call is in flight; the records are
\* taken in the order they have in the record sequence, and the store calls
\* for a record are issued only when those of every earlier record of the
\* batch have been answered.
C23_StoreCallsSequential ==
  /\ InFlight <= 1
  /\ Len(runLog) <= Len(WithAnalysis(approvedFiles))
  /\ \A k \in 1..Len(runLog) :
       /\ runLog[k].id = WithAnalysis(approvedFiles)[k].id
       /\ k < Len(runLog) => Completed(runLog[k])
       /\ \A j \in 1..(k - 1) :
            PositionOf(files, runLog[j].id) < PositionOf(files, runLog[k].id)
  /\ (Len(runLog) > 0 /\ ~Completed(runLog[Len(runLog)])) =>
       syncPc \in {"resolve", "update"}

\* C23 witness: the find-folder call for the second record of a run is in
\* flight after the update of the first record was answered
C23_Witness ==
  /\ Len(runLog) = 2
  /\ Len(approvedFiles) = 2
  /\ runLog[1].update = "ok"
  /\ runLog[2].resolve = "pending"
  /\ syncPc = "resolve"
  /\ ensPc = "find"

(***************************************************************************)
(* Sync executor: resolve, then update.                                    *)
(***************************************************************************)
\* C27: an update call is issued for a record only after its path
\* resolution has returned (or was not needed), never while a resolver call
\* is unanswered; a record whose resolution failed gets no update call and
\* is in error as soon as the failure is caught.
C27_ResolveBeforeUpdate ==
  /\ syncPc = "update" => ensPc = "idle"
  /\ \A k \in 1..Len(runLog) :
       /\ (runLog[k].update /= "none" \/ runLog[k].request /= None) =>
            runLog[k].resolve \in {"ok", "notneeded"}
       /\ runLog[k].resolve = "pending" =>
            (k = Len(runLog) /\ syncPc = "resolve")
       /\ runLog[k].resolve = "failed" =>
            /\ runLog[k].update = "none"
            /\ runLog[k].request = None
            /\ (k < Len(runLog) \/ syncPc /= "resolve") =>
                 StatusOf(files, runLog[k].id) = {"error"}

\* C27 witness: in one run the resolution for the first record failed and
\* the record is in error without an update call, and the update for the
\* second record has been issued after its resolution returned
C27_Witness ==
  /\ Len(runLog) = 2
  /\ runLog[1].resolve = "failed"
  /\ runLog[1].request = None
  /\ StatusOf(files, runLog[1].id) = {"error"}
  /\ runLog[2].resolve = "ok"
  /\ runLog[2].update = "pending"
  /\ syncPc = "update"

(***************************************************************************)
(* Sync executor: one update request per record.                           *)
(***************************************************************************)
\* C28: a run issues at most one update request per record: no record is
\* logged twice, no entry counts a second request, and a record whose
\* request failed is in error with that one request.
C28_UpdateNotRetried ==
  \A k \in 1..Len(runLog) :
    /\ runLog[k].updates <= 1
    /\ runLog[k].updates = 1 <=> runLog[k].request /= None
    /\ \A j \in 1..Len(runLog) : runLog[j].id = runLog[k].id => j = k
    /\ runLog[k].update = "failed" =>
         /\ runLog[k].updates = 1
         /\ StatusOf(files, runLog[k].id) = {"error"}

\* C28 witness: the update for the first record of a run failed, the
\* record is in error, and the run has gone on to the second record
C28_Witness ==
  /\ Len(runLog) = 2
  /\ runLog[1].update = "failed"
  /\ runLog[1].updates = 1
  /\ StatusOf(files, runLog[1].id) = {"error"}
  /\ runLog[2].update = "pending"

(***************************************************************************)
(* Sync executor: records without analysis, records outside the batch.     *)
(***************************************************************************)
\* C29: a record of the batch that has no analysis keeps the status
\* approved throughout the run, and the run issues no resolve and no update
\* call for it.
C29_NoAnalysisSkipped ==
  \A k \in 1..Len(approvedFiles) :
    approvedFiles[k].analysis = None =>
      /\ StatusOf(files, approvedFiles[k].id) = {"approved"}
      /\ \A j \in 1..Len(runLog) : runLog[j].id /= approvedFiles[k].id
      /\ (syncI = k /\ syncPc /= "idle") => (syncPc = "loop" /\ ensPc = "idle")

\* C29 witness: the run has passed its first record, which has no analysis
\* and is still approved, and has synced the second
C29_Witness ==
  /\ Len(approvedFiles) = 2
  /\ approvedFiles[1].analysis = None
  /\ StatusOf(files, approvedFiles[1].id) = {"approved"}
  /\ syncI = 3
  /\ Len(runLog) = 1
  /\ runLog[1].id = approvedFiles[2].id
  /\ runLog[1].update = "ok"

\* the ids of the records the running sync took up
BatchIds == {approvedFiles[k].id : k \in 1..Len(approvedFiles)}

\* C30: while a run is in progress, a record that was not approved when the
\* run started keeps its status and its analysis, and the run logs no store
\* call for it.
C30_SyncTouchesOnlyApproved ==
  [][(syncPc /= "idle" /\ files' /= files) =>
       /\ SameRecords
       /\ \A k \in 1..Len(files) :
            files[k].id \notin BatchIds => files'[k] = files[k]
       /\ \A j \in 1..Len(runLog') : runLog'[j].id \in BatchIds]_vars

(***************************************************************************)
(* Sync executor: one run at a time.                                       *)
(***************************************************************************)
\* C26: at most one invocation of the sync handler is in its loop at any
\* time, and no record has store calls logged by two invocations.
C26_OneSyncRunActive ==
  /\ ~(syncPc /= "idle" /\ suspended.syncPc /= "idle")
  /\ \A j \in 1..Len(runLog) : \A k \in 1..Len(suspended.runLog) :
       runLog[j].id /= suspended.runLog[k].id

(***************************************************************************)
(* Sync executor: termination of a run.                                    *)
(***************************************************************************)
\* C31: when every store call is answered, a run that has started ends:
\* the handler leaves its loop and the syncing flag is false again, whatever
\* the store answered for the records.
C31_SyncRunReturnsToIdle == SyncActive ~> ~SyncActive

\* C31 witness: a run has ended in which a store call for the first record
\* failed and the second record was synced after it
C31_Witness ==
  /\ ~SyncActive
  /\ confirmTimer
  /\ failures = 1
  /\ Len(files) = 2
  /\ files[1].status = "error"
  /\ files[2].status = "synced"
  /\ syncProgress = [current |-> 2, total |-> 2]

(***************************************************************************)
(* Folder path cache.                                                      *)
(***************************************************************************)
\* C32: a prefix that is in the folder cache stays in it with the same
\* folder identifier, whatever step is taken.
C32_CacheWriteOnce ==
  [][\A key \in DOMAIN folderCache :
       /\ key \in DOMAIN folderCache'
       /\ folderCache'[key] = folderCache[key]]_vars

(***************************************************************************)
(* Folder path resolver: the walk.                                         *)
(***************************************************************************)
\* the folder the cache holds for the first k segments (the root for none)
CachedPrefix(ps, k) == IF k = 0 THEN Root ELSE folderCache[PrefixKey(ps, k)]

\* C33: a find-folder or create-folder call is for the segment whose prefix
\* is not in the cache, under the folder of the preceding prefix (the root
\* for the first); a prefix gets one find call, and a create call only
\* when the store holds no such folder; a call for a path of k segments
\* absent from cache and store issues k find and k create calls, and the
\* folders it made form a chain from the root to the folder it returns.
C33_WalkFindsThenCreates ==
  /\ ensPc \in {"find", "create"} =>
       /\ currentPathStr = PrefixKey(parts, partIdx)
       /\ ~Cached(currentPathStr)
       /\ currentParentId = CachedPrefix(parts, partIdx - 1)
       /\ call.creates <= call.finds
       /\ call.finds <= partIdx
       /\ ensPc = "create" => FindMatches(parts[partIdx], currentParentId) = {}
  /\ (call.status = "returned" /\ call.fresh) =>
       LET ps == Normalize(call.path) IN
       /\ call.finds = Len(ps)
       /\ call.creates = Len(ps)
       /\ call.result = CachedPrefix(ps, Len(ps))
       /\ \A k \in 1..Len(ps) :
            {f \in folders : f.name = ps[k]
                               /\ f.parent = CachedPrefix(ps, k - 1)}
              = {[id |-> CachedPrefix(ps, k), name |-> ps[k],
                  parent |-> CachedPrefix(ps, k - 1)]}

\* C33 witness: the call for b/a, of which nothing was there, has returned
\* after two find and two create calls
C33_Witness ==
  /\ call.status = "returned"
  /\ call.fresh
  /\ call.path = StrBA
  /\ call.creates = 2
  /\ \E f \in folders : f.id = call.result /\ f.name = StrA /\ f.parent /= Root

(***************************************************************************)
(* Sync executor: when the resolver is invoked.                            *)
(***************************************************************************)
\* the record of the running batch with this id
BatchRecord(id) ==
  approvedFiles[CHOOSE k \in 1..Len(approvedFiles) : approvedFiles[k].id = id]

\* C34: the run hands the path of a record to the resolver exactly when it
\* is not empty, not "." and not "/"; for such a root-like path no resolver
\* call is made, and the update request carries the new name only, with no
\* target folder, no parent added and none removed.
C34_ResolveIffNonRootPath ==
  \A k \in 1..Len(runLog) :
    LET an == BatchRecord(runLog[k].id).analysis[1] IN
    IF an.suggestedPath \notin {Str0, StrDot, StrSlash}
      THEN /\ runLog[k].resolved = Some(an.suggestedPath)
           /\ runLog[k].resolve /= "notneeded"
      ELSE /\ runLog[k].resolved = None
           /\ runLog[k].resolve = "notneeded"
           /\ runLog[k].request /= None
           /\ runLog[k].request[1].targetFolderId = None
           /\ runLog[k].request[1].params =
                [fileId |-> runLog[k].id, name |-> an.suggestedName,
                 addParents |-> None, removeParents |-> None]
           /\ (k = Len(runLog) /\ syncPc /= "loop") =>
                (syncPc = "update" /\ ensPc = "idle" /\ call = NoCall)

\* C34 witness: one run has sent a name-only update for a record with the
\* empty path and has handed the path of the next record to the resolver
C34_Witness ==
  /\ Len(runLog) = 2
  /\ BatchRecord(runLog[1].id).analysis[1].suggestedPath = Str0
  /\ runLog[1].update = "ok"
  /\ runLog[1].request[1].params.addParents = None
  /\ runLog[2].resolved /= None
  /\ ensPc = "find"

(***************************************************************************)
(* Review state machine: what an edit and the other handlers leave alone.  *)
(***************************************************************************)
\* C35: an edit gives the analysis of the record with the given id the new
\* name and path and leaves every other field of that analysis, the status
\* and the descriptor of the record, and every other record as they were.
C35_EditChangesOnlyNameAndPath ==
  [][files' /= files =>
       \A id \in FileIds : \A path \in EditedPaths :
         handleUpdateAnalysis(id, "edited", path) =>
           /\ Len(files') = Len(files)
           /\ \A k \in 1..Len(files) :
                IF files[k].id = id /\ files[k].analysis /= None
                  THEN /\ [files'[k] EXCEPT !.analysis = None]
                            = [files[k] EXCEPT !.analysis = None]
                       /\ files'[k].analysis /= None
                       /\ DOMAIN files'[k].analysis[1] = DOMAIN files[k].analysis[1]
                       /\ files'[k].analysis[1].suggestedName = "edited"
                       /\ files'[k].analysis[1].suggestedPath = path
                       /\ \A fld \in DOMAIN files[k].analysis[1]
                                     \ {"suggestedName", "suggestedPath"} :
                            files'[k].analysis[1][fld] = files[k].analysis[1][fld]
                  ELSE files'[k] = files[k]]_vars

\* C35 witness: the approved record 1 was edited and has the new name and
\* path with its category, beside record 2 with the classifier's suggestion
C35_Witness ==
  /\ Len(files) = 2
  /\ edits[1] /= None
  /\ edits[2] = None
  /\ files[1].status = "approved"
  /\ files[1].analysis = Some(Analysis(1, "edited", StrDot))
  /\ files[2].analysis = Some(Analysis(2, "suggested", StrAB))

\* the step empties the record sequence
ClearStep == handleLogout \/ handleReset \/ ConfirmNewBatch

\* id, name and parents of every record, in order
Descriptors(fs) ==
  [k \in 1..Len(fs) |->
     [id |-> fs[k].id, name |-> fs[k].name, parents |-> fs[k].parents]]

\* C36: only an ingestion and the clearing of the batch change the number,
\* the order or the descriptor fields of the records; approve, reject,
\* approveAll, an edit, the merge of results and every step of a sync run
\* leave them as they are.
C36_DescriptorsNeverMutated ==
  [][files' /= files =>
       \/ Descriptors(files') = Descriptors(files)
       \/ IngestStep
       \/ ClearStep]_vars

\* C36 witness: a batch of two records has been classified, edited,
\* rejected, approved and synced, and its descriptors are those ingested
C36_Witness ==
  /\ confirmTimer
  /\ Len(files) = 2
  /\ files[1].status = "rejected"
  /\ files[2].status = "synced"
  /\ edits[2] /= None
  /\ Descriptors(files) = [k \in 1..2 |-> Descriptor(k)]

(***************************************************************************)
(* Classification responses that arrive late.                              *)
(***************************************************************************)
\* C37: the response to a request whose batch was cleared or replaced
\* changes no record and does not change the state of the application.
C37_StaleResponseIgnored ==
  [][requests'.stale /= requests.stale =>
       \A body \in Bodies :
         (ClassifyReturns("stale", body) \/ ClassifyThrows("stale", body)) =>
           /\ files' = files
           /\ appState' = appState]_vars

(***************************************************************************)
(* Remote mutation applier: parents removed and added.                     *)
(***************************************************************************)
\* C38: an update request that removes parents also adds the target
\* folder, and the folder it adds is none of those it removes.
C38_RemoveOnlyWithAdd ==
  \A r \in Requests :
    r.params.removeParents /= None =>
      /\ r.params.addParents /= None
      /\ r.params.addParents = r.targetFolderId
      /\ r.params.addParents[1] \notin IdsOf(r.params.removeParents)

\* C38 witness: one run has moved the file that lies in folder a to another
\* folder (parent removed, target added) and the file without parents to
\* the same folder (target added, nothing removed)
C38_Witness ==
  /\ \E r \in Requests :
       /\ r.params.removeParents = Some(<<1>>)
       /\ r.params.addParents /= None
       /\ r.params.addParents[1] /= 1
  /\ \E r \in Requests :
       /\ r.currentParents = None
       /\ r.params.addParents /= None
       /\ r.params.removeParents = None

(***************************************************************************)
(* DriveSelector: what is handed over, what is shown.                      *)
(***************************************************************************)
\* C39: the descriptors handed over for analysis are those of the selected
\* ids: as many as the selected count the page displays, one per selected
\* id, and none of a folder.
C39_SubmitsExactlySelected ==
  [][handleAnalyzeSelection =>
       /\ Len(files') = Cardinality(selector.selectedIds)
       /\ {files'[k].id : k \in 1..Len(files')} = selector.selectedIds
       /\ \A k \in 1..Len(files') : files'[k].id \in FileIds]_vars

\* C40: when the selector is connected and no listing request is
\* unanswered, the rows it holds are the listing of the folder on top of
\* the navigation stack.
C40_ShownListingIsOfCurrentFolder ==
  (selector.isConnected /\ selector.fetches = <<>>) =>
    selector.files = ListingOf(selector.folderStack[Len(selector.folderStack)])

====
